---- MODULE Spec2Model ----
(***************************************************************************)
(* Portfolio ledger replay, weight computation, rebalance trade builder    *)
(* (scripts/rebalance_portfolio.py) and the price fetch loop               *)
(* (scripts/update_prices.py).                                             *)
(*                                                                         *)
(* Python strings are sequences of character codes, so that comparison     *)
(* (dates against the cutoff, sorted symbols) and upper() are computed as  *)
(* Python computes them.  A dict is a function on the keys it holds; a     *)
(* missing key is a key outside its DOMAIN.  None is the empty option <<>> *)
(* and a present value v is <<v>>.  Weights and the weight ceiling are     *)
(* exact fractions <<numerator, denominator>>.                             *)
(***************************************************************************)
EXTENDS Integers, Sequences, FiniteSets, TLC

VARIABLES caller, pc, err, cfg, as_of_date_str, tx_idx, holdings, cash,
          live_prices, max_abs_weight, total_nav_cents, weights, h_idx,
          trades, today_str, ledger0,
          symbol_set, symbols_to_track, sym_idx, latest, events, history_symbols

replayVars == <<cfg, as_of_date_str, tx_idx, holdings, cash>>
buildVars  == <<live_prices, max_abs_weight, total_nav_cents, weights, h_idx, trades>>
mainVars   == <<today_str, ledger0>>
fetchVars  == <<symbol_set, symbols_to_track, sym_idx, latest, events, history_symbols>>
vars == <<caller, pc, err, replayVars, buildVars, mainVars, fetchVars>>

----------------------------------------------------------------------------
(* Bounds of the model *)
MaxLedger == 2
MaxShares == 2
MaxPrice  == 2
MaxCash   == 4

----------------------------------------------------------------------------
(* Strings *)
Abs(x) == IF x < 0 THEN -x ELSE x

\* Python's str < str: lexicographic on code points, a proper prefix is smaller
StrLess(a, b) ==
  \E k \in 1..(Len(a) + 1) :
     /\ \A m \in 1..(k - 1) : m <= Len(b) /\ a[m] = b[m]
     /\ \/ k <= Len(a) /\ k <= Len(b) /\ a[k] < b[k]
        \/ k = Len(a) + 1 /\ Len(b) >= k

StrGreater(a, b) == StrLess(b, a)

\* str.upper() on ASCII text
Upper(s) == [k \in DOMAIN s |-> IF s[k] \in 97..122 THEN s[k] - 32 ELSE s[k]]

Digit(n) == 48 + (n % 10)
\* date.isoformat(): "YYYY-MM-DD"
IsoDate(y, m, d) ==
  << Digit(y \div 1000), Digit(y \div 100), Digit(y \div 10), Digit(y), 45,
     Digit(m \div 10), Digit(m), 45, Digit(d \div 10), Digit(d) >>

BUY  == <<66, 85, 89>>          \* "BUY"
SELL == <<83, 69, 76, 76>>      \* "SELL"
LowerBuy == <<98, 117, 121>>    \* "buy"
MixedSell == <<83, 101, 108, 108>>  \* "Sell"
HOLD == <<72, 79, 76, 68>>      \* "HOLD"
TickA == <<65>>                 \* "A"
TickB == <<66>>                 \* "B"
AAPL == <<65, 65, 80, 76>>      \* "AAPL"
EmptyStr == <<>>

None == <<>>
Some(v) == <<v>>

\* dict.get(key, default)
Get(d, key, default) == IF key \in DOMAIN d THEN d[key] ELSE default

----------------------------------------------------------------------------
(* compute_holdings_and_cash *)

\* The cutoff when no date is given
NoCutOff == IsoDate(9999, 12, 31)

CutOff(as_of) == IF as_of = None THEN NoCutOff ELSE as_of[1]

\* A plausible variant: a transaction dated on the cutoff is dropped too
AfterOrOnCutOff(tx, cut_off) ==
  /\ "date" \in DOMAIN tx
  /\ tx.date # EmptyStr
  /\ (StrGreater(tx.date, cut_off) \/ tx.date = cut_off)

\* tx_date and tx_date > cut_off
AfterCutOff(tx, cut_off) ==
  /\ "date" \in DOMAIN tx
  /\ tx.date # EmptyStr
  /\ StrGreater(tx.date, cut_off)

\* (tx.get("type") or "").upper()
TxType(tx) == Upper(Get(tx, "type", EmptyStr))

\* A plausible variant: a share count of zero is let through
MalformedNegativeOnly(tx) ==
  \/ "ticker" \notin DOMAIN tx
  \/ tx.ticker = EmptyStr
  \/ Get(tx, "shares", 0) < 0
  \/ Get(tx, "priceCents", 0) < 0

\* not ticker or shares <= 0 or price_cents < 0
Malformed(tx) ==
  \/ "ticker" \notin DOMAIN tx
  \/ tx.ticker = EmptyStr
  \/ Get(tx, "shares", 0) <= 0
  \/ Get(tx, "priceCents", 0) < 0

\* holdings is a dict in insertion order: a sequence of [ticker, shares]
HKeys(h) == {h[k].ticker : k \in DOMAIN h}
HGet(h, t, default) ==
  IF t \in HKeys(h) THEN h[CHOOSE k \in DOMAIN h : h[k].ticker = t].shares
  ELSE default
\* holdings[t] = v
HSet(h, t, v) ==
  IF t \in HKeys(h)
  THEN [k \in DOMAIN h |-> IF h[k].ticker = t THEN [ticker |-> t, shares |-> v] ELSE h[k]]
  ELSE Append(h, [ticker |-> t, shares |-> v])

\* A plausible variant: a SELL is refused when it exceeds the shares held
ApplyTxNoShort(st, tx, cut_off) ==
  IF AfterCutOff(tx, cut_off) THEN st
  ELSE IF Malformed(tx) THEN st
  ELSE LET ttype == TxType(tx)
           shares == Get(tx, "shares", 0)
           amount == shares * Get(tx, "priceCents", 0)
       IN IF ttype = BUY
          THEN [holdings |-> HSet(st.holdings, tx.ticker, HGet(st.holdings, tx.ticker, 0) + shares),
                cash |-> st.cash - amount]
          ELSE IF ttype = SELL /\ shares <= HGet(st.holdings, tx.ticker, 0)
          THEN [holdings |-> HSet(st.holdings, tx.ticker, HGet(st.holdings, tx.ticker, 0) - shares),
                cash |-> st.cash + amount]
          ELSE st

\* One pass of the loop body over tx, from state st = [holdings, cash]
ApplyTx(st, tx, cut_off) ==
  IF AfterCutOff(tx, cut_off) THEN st
  ELSE IF Malformed(tx) THEN st
  ELSE LET ttype == TxType(tx)
           shares == Get(tx, "shares", 0)
           amount == shares * Get(tx, "priceCents", 0)
       IN IF ttype = BUY
          THEN [holdings |-> HSet(st.holdings, tx.ticker, HGet(st.holdings, tx.ticker, 0) + shares),
                cash |-> st.cash - amount]
          ELSE IF ttype = SELL
          THEN [holdings |-> HSet(st.holdings, tx.ticker, HGet(st.holdings, tx.ticker, 0) - shares),
                cash |-> st.cash + amount]
          ELSE st

RECURSIVE ReplayFrom(_, _, _)
\* The loop over the transactions txs, from state st
ReplayFrom(st, txs, cut_off) ==
  IF txs = <<>> THEN st
  ELSE ReplayFrom(ApplyTx(st, Head(txs), cut_off), Tail(txs), cut_off)

\* compute_holdings_and_cash(c, as_of): the returned (holdings, cash)
Replay(c, as_of) ==
  ReplayFrom([holdings |-> <<>>, cash |-> Get(c, "startingCashCents", 0)],
             Get(c, "transactions", <<>>), CutOff(as_of))

\* Entry: lines 51-58
ReplayCall ==
  /\ pc = "replay_call"
  /\ tx_idx' = 1
  /\ cash' = Get(cfg, "startingCashCents", 0)
  /\ holdings' = <<>>
  /\ pc' = "replay"
  /\ UNCHANGED <<caller, err, cfg, as_of_date_str, buildVars, mainVars, fetchVars>>

\* One iteration of the for loop
ReplayStep ==
  /\ pc = "replay"
  /\ tx_idx <= Len(Get(cfg, "transactions", <<>>))
  /\ LET st == ApplyTx([holdings |-> holdings, cash |-> cash],
                       Get(cfg, "transactions", <<>>)[tx_idx], CutOff(as_of_date_str))
     IN /\ holdings' = st.holdings
        /\ cash' = st.cash
  /\ tx_idx' = tx_idx + 1
  /\ UNCHANGED <<caller, pc, err, cfg, as_of_date_str, buildVars, mainVars, fetchVars>>

\* return holdings, cash
ReplayReturn ==
  /\ pc = "replay"
  /\ tx_idx > Len(Get(cfg, "transactions", <<>>))
  /\ pc' = IF caller = "main" THEN "main_replayed" ELSE "done"
  /\ UNCHANGED <<caller, err, replayVars, buildVars, mainVars, fetchVars>>

----------------------------------------------------------------------------
(* compute_weights *)

RECURSIVE PositionsNav(_, _)
\* The first loop: the sum of price * shares over the priced tickers of h
PositionsNav(h, prices) ==
  IF h = <<>> THEN 0
  ELSE (IF Head(h).ticker \in DOMAIN prices
        THEN prices[Head(h).ticker] * Head(h).shares ELSE 0)
       + PositionsNav(Tail(h), prices)

TotalNav(h, cash_cents, prices) == PositionsNav(h, prices) + cash_cents

\* A plausible variant: only a negative NAV is refused
NavNegative(nav) == nav < 0

\* total_nav_cents <= 0
NavNonPositive(nav) == nav <= 0

\* A plausible variant: an unpriced ticker is given the weight zero
WeightsWithUnpriced(h, prices, nav) ==
  [t \in HKeys(h) |->
     IF t \in DOMAIN prices THEN <<prices[t] * HGet(h, t, 0), nav>> ELSE <<0, nav>>]

\* The second loop: weights[ticker] = price * shares / total_nav_cents
Weights(h, prices, nav) ==
  [t \in HKeys(h) \cap DOMAIN prices |-> <<prices[t] * HGet(h, t, 0), nav>>]

----------------------------------------------------------------------------
(* build_rebalance_trades *)

\* int(x) of the fraction n/d, d > 0: truncation toward zero
IntOf(n, d) == IF n >= 0 THEN n \div d ELSE 0 - ((0 - n) \div d)

\* math.floor(a / b), b # 0
FloorDiv(a, b) == IF b > 0 THEN a \div b ELSE (0 - a) \div (0 - b)

\* abs_weight <= max_abs_weight, for a weight over a positive NAV
WithinLimit(weight, maxw) == Abs(weight[1]) * maxw[2] <= maxw[1] * weight[2]

\* A plausible variant: the boundary NAV is rounded up
TargetNavCentsRoundedUp(maxw, nav, pos_nav) ==
  LET m == (maxw[1] * nav + maxw[2] - 1) \div maxw[2]
  IN IF pos_nav < 0 THEN 0 - m ELSE m

\* math.copysign(int(max_abs_weight * total_nav_cents), pos_nav_cents)
TargetNavCents(maxw, nav, pos_nav) ==
  LET m == Abs(IntOf(maxw[1] * nav, maxw[2]))
  IN IF pos_nav < 0 THEN 0 - m ELSE m

\* A plausible variant: the share count at the boundary is rounded up
DesiredAbsSharesCeil(target, price) == 0 - FloorDiv(0 - Abs(target), price)

\* math.floor(abs(target_nav_cents) / price)
DesiredAbsShares(target, price) == FloorDiv(Abs(target), price)

\* A plausible variant: the whole position is closed
SharesToTradeAll(current_abs, desired_abs) == current_abs

\* shares_to_trade_abs = current_abs_shares - desired_abs_shares
SharesToTrade(current_abs, desired_abs) == current_abs - desired_abs

\* A plausible variant: the direction follows the wrong sign
TradeTypeFlipped(net_shares) == IF net_shares > 0 THEN BUY ELSE SELL

\* Long position: SELL to reduce; short position: BUY to cover
TradeType(net_shares) == IF net_shares > 0 THEN SELL ELSE BUY

\* The body of the loop over holdings for the entry e, from res = [err, trades]
TradeStep(res, e, prices, w, nav, maxw) ==
  IF e.shares = 0 THEN res
  ELSE IF e.ticker \notin DOMAIN prices THEN res
  ELSE LET price == prices[e.ticker]
           weight == Get(w, e.ticker, <<0, 1>>)
       IN IF WithinLimit(weight, maxw) THEN res
          ELSE LET pos_nav == price * e.shares
                   target == TargetNavCents(maxw, nav, pos_nav)
               IN IF price = 0 THEN [res EXCEPT !.err = "ZeroDivisionError"]
                  ELSE LET desired == DesiredAbsShares(target, price)
                           current == Abs(e.shares)
                           n == SharesToTrade(current, desired)
                       IN IF desired >= current THEN res
                          ELSE IF n <= 0 THEN res
                          ELSE [res EXCEPT !.trades =
                                  Append(@, [ticker |-> e.ticker,
                                             type |-> TradeType(e.shares),
                                             shares |-> n,
                                             priceCents |-> price,
                                             oldWeight |-> weight,
                                             targetAbsWeight |-> maxw])]

RECURSIVE TradeLoop(_, _, _, _, _, _)
TradeLoop(res, h, prices, w, nav, maxw) ==
  IF h = <<>> \/ res.err # "" THEN res
  ELSE TradeLoop(TradeStep(res, Head(h), prices, w, nav, maxw), Tail(h), prices, w, nav, maxw)

\* build_rebalance_trades(h, cash_cents, prices, maxw): what is raised and returned
BuildTrades(h, cash_cents, prices, maxw) ==
  LET nav == TotalNav(h, cash_cents, prices)
  IN IF NavNonPositive(nav) THEN [err |-> "RuntimeError", trades |-> <<>>]
     ELSE TradeLoop([err |-> "", trades |-> <<>>], h, prices, Weights(h, prices, nav), nav, maxw)

\* Entry of build_rebalance_trades: trades = []
BuildCall ==
  /\ pc = "build_call"
  /\ trades' = <<>>
  /\ pc' = "weights"
  /\ UNCHANGED <<caller, err, replayVars, live_prices, max_abs_weight, total_nav_cents,
                 weights, h_idx, mainVars, fetchVars>>

\* compute_weights raises: the NAV is not positive
ComputeWeightsRaise ==
  /\ pc = "weights"
  /\ NavNonPositive(TotalNav(holdings, cash, live_prices))
  /\ total_nav_cents' = TotalNav(holdings, cash, live_prices)
  /\ err' = "RuntimeError"
  /\ pc' = "raised"
  /\ UNCHANGED <<caller, replayVars, live_prices, max_abs_weight, weights, h_idx, trades,
                 mainVars, fetchVars>>

\* compute_weights returns weights and the total NAV
ComputeWeightsReturn ==
  /\ pc = "weights"
  /\ ~NavNonPositive(TotalNav(holdings, cash, live_prices))
  /\ total_nav_cents' = TotalNav(holdings, cash, live_prices)
  /\ weights' = Weights(holdings, live_prices, TotalNav(holdings, cash, live_prices))
  /\ h_idx' = 1
  /\ pc' = "trades"
  /\ UNCHANGED <<caller, err, replayVars, live_prices, max_abs_weight, trades,
                 mainVars, fetchVars>>

\* One iteration of the loop over holdings
TradeIter ==
  /\ pc = "trades"
  /\ h_idx <= Len(holdings)
  /\ LET res == TradeStep([err |-> "", trades |-> trades], holdings[h_idx], live_prices,
                          weights, total_nav_cents, max_abs_weight)
     IN /\ trades' = res.trades
        /\ err' = res.err
        /\ pc' = IF res.err # "" THEN "raised" ELSE "trades"
  /\ h_idx' = h_idx + 1
  /\ UNCHANGED <<caller, replayVars, live_prices, max_abs_weight, total_nav_cents, weights,
                 mainVars, fetchVars>>

\* return trades
BuildReturn ==
  /\ pc = "trades"
  /\ h_idx > Len(holdings)
  /\ pc' = IF caller = "main" THEN "main_built" ELSE "returned"
  /\ UNCHANGED <<caller, err, replayVars, buildVars, mainVars, fetchVars>>

----------------------------------------------------------------------------
(* main of rebalance_portfolio.py *)

\* MAX_ABS_WEIGHT = 0.15
MAX_ABS_WEIGHT == <<15, 100>>

\* The transaction appended for the trade t
RebalanceTx(t, today) ==
  [date |-> today, ticker |-> t.ticker, type |-> t.type, shares |-> t.shares,
   priceCents |-> t.priceCents, note |-> "Automated portfolio rebalance"]

\* load_config, load_prices, today; then the replay without a cutoff
MainStart ==
  /\ pc = "main"
  /\ as_of_date_str' = None
  /\ pc' = "replay_call"
  /\ UNCHANGED <<caller, err, cfg, tx_idx, holdings, cash, buildVars, mainVars, fetchVars>>

\* if not holdings: nothing to rebalance
MainNoHoldings ==
  /\ pc = "main_replayed"
  /\ holdings = <<>>
  /\ pc' = "done"
  /\ UNCHANGED <<caller, err, replayVars, buildVars, mainVars, fetchVars>>

\* build_rebalance_trades(holdings, cash_cents, prices, MAX_ABS_WEIGHT)
MainBuild ==
  /\ pc = "main_replayed"
  /\ holdings # <<>>
  /\ max_abs_weight' = MAX_ABS_WEIGHT
  /\ pc' = "build_call"
  /\ UNCHANGED <<caller, err, replayVars, live_prices, total_nav_cents, weights, h_idx,
                 trades, mainVars, fetchVars>>

\* if not trades: no trades needed
MainNoTrades ==
  /\ pc = "main_built"
  /\ trades = <<>>
  /\ pc' = "done"
  /\ UNCHANGED <<caller, err, replayVars, buildVars, mainVars, fetchVars>>

\* The trades are appended to cfg["transactions"] and the config is saved
MainAppend ==
  /\ pc = "main_built"
  /\ trades # <<>>
  /\ cfg' = [t \in DOMAIN cfg \cup {"transactions"} |->
               IF t = "transactions"
               THEN Get(cfg, "transactions", <<>>)
                      \o [k \in DOMAIN trades |-> RebalanceTx(trades[k], today_str)]
               ELSE cfg[t]]
  /\ pc' = "saved"
  /\ UNCHANGED <<caller, err, as_of_date_str, tx_idx, holdings, cash, buildVars, mainVars,
                 fetchVars>>

----------------------------------------------------------------------------
(* Inputs of the replay *)
Date1 == IsoDate(2024, 1, 31)
Date2 == IsoDate(2024, 2, 1)
Date3 == IsoDate(2024, 12, 1)
Dates == {Date1, Date2, Date3}

Tx(d, t, ty, s, p) == [date |-> d, ticker |-> t, type |-> ty, shares |-> s, priceCents |-> p]

ValidTxs ==
  {Tx(d, TickA, ty, 1, MaxPrice) : d \in Dates, ty \in {BUY, SELL}}
  \cup {Tx(d, TickB, ty, MaxShares, 1) : d \in Dates, ty \in {BUY, SELL}}

\* Records the replay accepts although they are not in canonical form
LenientTxs ==
  { Tx(Date2, TickA, LowerBuy, 1, 1),
    Tx(Date2, TickB, MixedSell, 1, 0),
    [ticker |-> TickA, type |-> BUY, shares |-> MaxShares, priceCents |-> 1],
    [date |-> Date3, ticker |-> TickA, type |-> SELL, shares |-> 1] }

\* Records the replay drops
MalformedTxs ==
  { [date |-> Date2, type |-> BUY, shares |-> 1, priceCents |-> 1],
    Tx(Date2, EmptyStr, BUY, 1, 1),
    Tx(Date2, TickA, BUY, 0, 1),
    Tx(Date2, TickB, SELL, -1, 1),
    [date |-> Date2, ticker |-> TickA, type |-> BUY, priceCents |-> 1],
    Tx(Date2, TickA, SELL, 1, -1),
    Tx(Date2, TickB, HOLD, 1, 1),
    [date |-> Date2, ticker |-> TickB, shares |-> 1, priceCents |-> 1] }

ReplayTxs == ValidTxs \cup LenientTxs \cup MalformedTxs

SeqsUpTo(S, n) == UNION {[1..m -> S] : m \in 0..n}

\* Scenarios A, C and D of the specification
ScenarioA == [startingCashCents |-> 1000000,
              transactions |-> <<Tx(Date1, AAPL, BUY, 100, 15000)>>]
ScenarioC == [startingCashCents |-> 0,
              transactions |-> <<Tx(Date1, AAPL, BUY, 10, 1), Tx(Date2, AAPL, SELL, 50, 1)>>]
ScenarioD == [startingCashCents |-> 7,
              transactions |-> <<Tx(Date1, AAPL, BUY, 0, 5)>>]

ReplayCfgs ==
  {[startingCashCents |-> MaxCash, transactions |-> l] : l \in SeqsUpTo(ReplayTxs, MaxLedger)}
  \cup {[transactions |-> l] : l \in SeqsUpTo(ValidTxs, 1)}
  \cup {[startingCashCents |-> MaxCash]}
  \cup {ScenarioA, ScenarioC, ScenarioD}

IdleBuild ==
  /\ live_prices = <<>>
  /\ max_abs_weight = <<0, 1>>
  /\ total_nav_cents = 0
  /\ weights = <<>>
  /\ h_idx = 0
  /\ trades = <<>>

IdleFetch ==
  /\ symbol_set = {}
  /\ symbols_to_track = <<>>
  /\ sym_idx = 0
  /\ latest = <<>>
  /\ events = <<>>
  /\ history_symbols = <<>>

ReplayInit ==
  /\ caller = "replay"
  /\ pc = "replay_call"
  /\ err = ""
  /\ cfg \in ReplayCfgs
  /\ as_of_date_str \in {None} \cup {Some(d) : d \in Dates}
  /\ tx_idx = 0
  /\ holdings = <<>>
  /\ cash = 0
  /\ today_str = Date3
  /\ ledger0 = Get(cfg, "transactions", <<>>)
  /\ IdleBuild
  /\ IdleFetch

ReplayNext == ReplayCall \/ ReplayStep \/ ReplayReturn

ReplaySpec == ReplayInit /\ [][ReplayNext]_vars

----------------------------------------------------------------------------
(* Inputs of the trade builder and of main *)
TickerSet == {TickA, TickB}

\* Holdings in every insertion order, each ticker at most once
HoldingsOver(T, S) ==
  {h \in SeqsUpTo([ticker : T, shares : S], Cardinality(T)) :
     \A k, m \in DOMAIN h : k # m => h[k].ticker # h[m].ticker}

PriceMaps == UNION {[D -> 0..MaxPrice] : D \in SUBSET TickerSet}

Ceilings == {<<0, 1>>, MAX_ABS_WEIGHT, <<1, 2>>, <<1, 1>>}

\* Scenario B of the specification
ScenarioBHoldings == <<[ticker |-> AAPL, shares |-> 100]>>
ScenarioBPrices == [t \in {AAPL} |-> 20000]

MainTxs == {Tx(Date1, t, ty, n, 1) : t \in TickerSet, ty \in {BUY, SELL}, n \in {1, MaxShares}}

IdleReplay ==
  /\ as_of_date_str = None
  /\ tx_idx = 0

BuildInit ==
  /\ caller = "build"
  /\ pc = "build_call"
  /\ err = ""
  /\ cfg = [transactions |-> <<>>]
  /\ ledger0 = <<>>
  /\ today_str = Date3
  /\ IdleReplay
  /\ \/ /\ holdings \in HoldingsOver(TickerSet, (0 - MaxShares)..MaxShares)
        /\ cash \in (0 - MaxPrice)..MaxCash
        /\ live_prices \in PriceMaps
        /\ max_abs_weight \in Ceilings
     \/ /\ holdings = ScenarioBHoldings
        /\ cash = 0
        /\ live_prices = ScenarioBPrices
        /\ max_abs_weight = MAX_ABS_WEIGHT
  /\ total_nav_cents = 0
  /\ weights = <<>>
  /\ h_idx = 0
  /\ trades = <<>>
  /\ IdleFetch

MainInit ==
  /\ caller = "main"
  /\ pc = "main"
  /\ err = ""
  /\ cfg \in {[startingCashCents |-> c, transactions |-> l] :
                c \in {0, MaxCash * MaxCash}, l \in SeqsUpTo(MainTxs, MaxLedger)}
  /\ ledger0 = cfg.transactions
  /\ today_str = Date3
  /\ IdleReplay
  /\ holdings = <<>>
  /\ cash = 0
  /\ live_prices \in PriceMaps
  /\ max_abs_weight = <<0, 1>>
  /\ total_nav_cents = 0
  /\ weights = <<>>
  /\ h_idx = 0
  /\ trades = <<>>
  /\ IdleFetch

Init == BuildInit \/ MainInit

Next ==
  \/ MainStart \/ ReplayCall \/ ReplayStep \/ ReplayReturn
  \/ MainNoHoldings \/ MainBuild
  \/ BuildCall \/ ComputeWeightsRaise \/ ComputeWeightsReturn \/ TradeIter \/ BuildReturn
  \/ MainNoTrades \/ MainAppend

Spec == Init /\ [][Next]_vars

----------------------------------------------------------------------------
(* Properties of the replay *)

Ledger == Get(cfg, "transactions", <<>>)
StartingCash == Get(cfg, "startingCashCents", 0)
Tickers(txs) == {txs[k].ticker : k \in {m \in DOMAIN txs : "ticker" \in DOMAIN txs[m]}}

DateLeq(d, cut_off) == d = cut_off \/ StrLess(d, cut_off)
\* The date of tx lets it through a cutoff (an undated record always passes)
Dated(tx) == "date" \in DOMAIN tx /\ tx.date # EmptyStr
InCutOff(tx, as_of) == as_of = None \/ ~Dated(tx) \/ DateLeq(tx.date, as_of[1])
\* A record the replay is to skip as malformed or of unknown type
Skipped(tx) ==
  \/ "ticker" \notin DOMAIN tx
  \/ Len(tx.ticker) = 0
  \/ "shares" \notin DOMAIN tx
  \/ tx.shares < 1
  \/ ("priceCents" \in DOMAIN tx /\ tx.priceCents < 0)
  \/ "type" \notin DOMAIN tx
  \/ tx.type \notin {BUY, SELL, LowerBuy, MixedSell}
IsBuy(tx) == tx.type \in {BUY, LowerBuy}
Amount(tx) == tx.shares * (IF "priceCents" \in DOMAIN tx THEN tx.priceCents ELSE 0)

RECURSIVE NetShares(_, _)
\* BUY shares minus SELL shares of ticker t over the applied records txs
NetShares(txs, t) ==
  IF txs = <<>> THEN 0
  ELSE (IF Head(txs).ticker # t THEN 0
        ELSE IF IsBuy(Head(txs)) THEN Head(txs).shares ELSE 0 - Head(txs).shares)
       + NetShares(Tail(txs), t)

RECURSIVE NetCash(_)
\* SELL amounts minus BUY amounts over the applied records txs
NetCash(txs) ==
  IF txs = <<>> THEN 0
  ELSE (IF IsBuy(Head(txs)) THEN 0 - Amount(Head(txs)) ELSE Amount(Head(txs)))
       + NetCash(Tail(txs))

AppliedOf(txs, as_of) ==
  SelectSeq(txs, LAMBDA tx : ~Skipped(tx) /\ InCutOff(tx, as_of))

\* C1: at every point of the replay, and so at its end, cash is the starting
\* cash minus shares*price of every applied BUY plus shares*price of every
\* applied SELL, and holdings holds exactly the tickers of the applied
\* records, each with its BUY shares minus its SELL shares, negative when
\* more was sold than held (Scenarios A and C).
C1_ReplayArithmetic ==
  pc \in {"replay", "done"} =>
    LET applied == AppliedOf(SubSeq(Ledger, 1, tx_idx - 1), as_of_date_str)
    IN /\ cash = StartingCash + NetCash(applied)
       /\ HKeys(holdings) = Tickers(applied)
       /\ \A t \in HKeys(holdings) : HGet(holdings, t, 0) = NetShares(applied, t)
       /\ Len(holdings) = Cardinality(HKeys(holdings))
       /\ (pc = "done" /\ cfg = ScenarioA =>
             holdings = <<[ticker |-> AAPL, shares |-> 100]>> /\ cash = -500000)
       /\ (pc = "done" /\ cfg = ScenarioC /\ as_of_date_str = None =>
             holdings = <<[ticker |-> AAPL, shares |-> -40]>>)

\* C1 witness: a finished replay in which a SELL of more than was held left
\* a negative holding
C1_Witness ==
  /\ pc = "done"
  /\ \E k \in DOMAIN Ledger :
       /\ ~Skipped(Ledger[k]) /\ ~IsBuy(Ledger[k]) /\ InCutOff(Ledger[k], as_of_date_str)
       /\ Ledger[k].shares >
            HGet(Replay([cfg EXCEPT !.transactions = SubSeq(Ledger, 1, k - 1)],
                        as_of_date_str).holdings, Ledger[k].ticker, 0)
       /\ HGet(holdings, Ledger[k].ticker, 0) < 0

RemoveAt(txs, k) == SubSeq(txs, 1, k - 1) \o SubSeq(txs, k + 1, Len(txs))

\* C2: the result of a finished replay (cash and the holdings in their
\* order) is the result of replaying the ledger without any one of its
\* malformed or unknown-type records, and no error is raised.
C2_SkipMalformed ==
  pc = "done" =>
    /\ err = ""
    /\ \A k \in DOMAIN Ledger :
         Skipped(Ledger[k]) =>
           [holdings |-> holdings, cash |-> cash]
             = Replay([cfg EXCEPT !.transactions = RemoveAt(Ledger, k)], as_of_date_str)

\* C2 witness: a finished replay whose ledger holds a skipped record followed
\* by a record that was applied
C2_Witness ==
  /\ pc = "done"
  /\ Len(Ledger) = 2
  /\ Skipped(Ledger[1])
  /\ ~Skipped(Ledger[2]) /\ InCutOff(Ledger[2], as_of_date_str)
  /\ holdings # <<>>

\* The records of txs dated after d1 and, when d2 is given, not after d2
Window(txs, d1, d2) ==
  SelectSeq(txs, LAMBDA tx : /\ ~Skipped(tx)
                             /\ Dated(tx)
                             /\ ~DateLeq(tx.date, d1)
                             /\ (d2 = None \/ DateLeq(tx.date, d2[1])))

Extends(r2, r1, added) ==
  /\ r2.cash = r1.cash + NetCash(added)
  /\ HKeys(r2.holdings) = HKeys(r1.holdings) \cup Tickers(added)
  /\ \A t \in HKeys(r2.holdings) :
       HGet(r2.holdings, t, 0) = HGet(r1.holdings, t, 0) + NetShares(added, t)

WithoutDate(tx) == [f \in DOMAIN tx \ {"date"} |-> tx[f]]

\* C7: a finished replay with cutoff D2 (or none) is the replay with any
\* earlier cutoff D1 adjusted by exactly the valid records dated in (D1, D2],
\* a record dated on D2 included; the replay without a cutoff drops no
\* record for its date.
C7_CutoffMonotonic ==
  pc = "done" =>
    /\ \A d1 \in Dates :
         (as_of_date_str = None \/ StrLess(d1, as_of_date_str[1])) =>
           Extends([holdings |-> holdings, cash |-> cash], Replay(cfg, Some(d1)),
                   Window(Ledger, d1, as_of_date_str))
    /\ (as_of_date_str = None /\ "transactions" \in DOMAIN cfg) =>
         [holdings |-> holdings, cash |-> cash]
           = Replay([cfg EXCEPT !.transactions = [k \in DOMAIN Ledger |-> WithoutDate(Ledger[k])]],
                    Some(Date1))

\* C7 witness: a finished replay with a cutoff, one record applied that is
\* dated on the cutoff and one record dropped that is dated after it
C7_Witness ==
  /\ pc = "done"
  /\ as_of_date_str = Some(Date2)
  /\ \E k, m \in DOMAIN Ledger :
       /\ ~Skipped(Ledger[k]) /\ Dated(Ledger[k]) /\ Ledger[k].date = Date2
       /\ ~Skipped(Ledger[m]) /\ Dated(Ledger[m]) /\ Ledger[m].date = Date3
       /\ HKeys(holdings) = {Ledger[k].ticker}
       /\ Ledger[m].ticker # Ledger[k].ticker

----------------------------------------------------------------------------
(* Properties of the weight computation and of the trade builder *)

RECURSIVE SumOver(_, _)
SumOver(S, f) ==
  IF S = {} THEN 0
  ELSE LET x == CHOOSE y \in S : TRUE IN f[x] + SumOver(S \ {x}, f)

\* Total NAV: price * signed shares over the priced tickers held, plus cash
NavOf(h, cash_cents, prices) ==
  cash_cents + SumOver(HKeys(h) \cap DOMAIN prices,
                       [t \in HKeys(h) \cap DOMAIN prices |-> prices[t] * HGet(h, t, 0)])

\* |price * shares| / nav > ceiling, for nav > 0
OverCeiling(price, shares, nav, ceiling) ==
  Abs(price * shares) * ceiling[2] > ceiling[1] * nav

\* build_rebalance_trades has returned its list
BuildFinished ==
  \/ pc \in {"returned", "main_built", "saved"}
  \/ pc = "done" /\ caller = "main" /\ holdings # <<>>

\* C3: once the weights were asked for, the run has failed with the domain
\* error exactly when the total NAV is <= 0; then no trade list exists and
\* main has appended nothing to the ledger; with a positive NAV no error is
\* raised.
C3_NonPositiveNavGuard ==
  LET nav == NavOf(holdings, cash, live_prices)
  IN /\ (pc = "trades" \/ BuildFinished) => (nav > 0 /\ err = "")
     /\ pc = "raised" => /\ nav <= 0
                         /\ err = "RuntimeError"
                         /\ trades = <<>>
                         /\ Ledger = ledger0
     /\ err # "" => pc = "raised"

\* C3 witness: main has failed on a portfolio whose NAV is exactly zero
C3_Witness ==
  /\ pc = "raised"
  /\ caller = "main"
  /\ holdings # <<>>
  /\ NavOf(holdings, cash, live_prices) = 0

\* The position and the NAV after the trade t is applied with replay semantics
AfterTrade(t) ==
  LET n == HGet(holdings, t.ticker, 0)
      n2 == IF t.type = SELL THEN n - t.shares ELSE n + t.shares
      cash2 == IF t.type = SELL THEN cash + t.shares * t.priceCents
               ELSE cash - t.shares * t.priceCents
  IN [shares |-> n2,
      nav |-> NavOf(HSet(holdings, t.ticker, n2), cash2, live_prices)]

\* The replay of the ledger with the trades appended
Replayed ==
  IF caller = "main" THEN Replay(cfg, None)
  ELSE ReplayFrom([holdings |-> holdings, cash |-> cash],
                  [k \in DOMAIN trades |-> RebalanceTx(trades[k], today_str)], NoCutOff)

\* C4: every emitted trade, applied at its quoted price, leaves its ticker
\* with |weight| <= the ceiling against the updated NAV; and so does every
\* traded ticker once all the trades are appended to the ledger and the
\* ledger is replayed with the same prices.
C4_BoundaryIdempotence ==
  /\ \A k \in DOMAIN trades :
       LET a == AfterTrade(trades[k])
       IN /\ a.nav > 0
          /\ ~OverCeiling(trades[k].priceCents, a.shares, a.nav, max_abs_weight)
  /\ pc \in {"returned", "saved"} =>
       LET r == Replayed
           nav == NavOf(r.holdings, r.cash, live_prices)
       IN \A k \in DOMAIN trades :
            /\ nav > 0
            /\ ~OverCeiling(live_prices[trades[k].ticker],
                            HGet(r.holdings, trades[k].ticker, 0), nav, max_abs_weight)

\* C4 witness: main has saved two trades, one of which keeps part of its
\* position
C4_Witness ==
  /\ pc = "saved"
  /\ Len(trades) = 2
  /\ Len(Ledger) = Len(ledger0) + 2
  /\ \E k \in DOMAIN trades : AfterTrade(trades[k]).shares # 0

OverWeightTickers ==
  {t \in HKeys(holdings) \cap DOMAIN live_prices :
     OverCeiling(live_prices[t], HGet(holdings, t, 0),
                 NavOf(holdings, cash, live_prices), max_abs_weight)}

\* C5: the list build_rebalance_trades returns holds exactly one trade for
\* each priced ticker whose |weight| exceeds the ceiling and none for any
\* other ticker; it is empty when no priced position exceeds the ceiling.
C5_OneTradePerOverWeight ==
  BuildFinished =>
    /\ {trades[k].ticker : k \in DOMAIN trades} = OverWeightTickers
    /\ Len(trades) = Cardinality(OverWeightTickers)

\* C5 witness: a returned list that trims one over-weight position and
\* leaves alone another priced, nonzero position within the ceiling
C5_Witness ==
  /\ BuildFinished
  /\ Len(trades) = 1
  /\ \E t \in (HKeys(holdings) \cap DOMAIN live_prices) \ OverWeightTickers :
       /\ HGet(holdings, t, 0) # 0
       /\ live_prices[t] > 0

\* C6: a trade on a long position is a SELL of 1..n shares, a trade on a
\* short position is a BUY of 1..|n| shares: the position moves toward
\* zero and never changes sign.
C6_TowardZero ==
  \A k \in DOMAIN trades :
    LET t == trades[k]
        n == HGet(holdings, t.ticker, 0)
    IN /\ n # 0
       /\ n > 0 => (t.type = SELL /\ t.shares >= 1 /\ t.shares <= n
                     /\ AfterTrade(t).shares >= 0)
       /\ n < 0 => (t.type = BUY /\ t.shares >= 1 /\ t.shares <= 0 - n
                     /\ AfterTrade(t).shares <= 0)

\* C6 witness: a returned list with a SELL on a long and a BUY on a short
\* position
C6_Witness ==
  /\ BuildFinished
  /\ \E k, m \in DOMAIN trades :
       /\ trades[k].type = SELL /\ HGet(holdings, trades[k].ticker, 0) > 0
       /\ trades[m].type = BUY /\ HGet(holdings, trades[m].ticker, 0) < 0

Without(h, u) == SelectSeq(h, LAMBDA e : e.ticker # u)

\* C8: a held ticker without a price adds nothing to the NAV, has no weight
\* and no trade, and the NAV, the weights and the trades (or the failure)
\* are those of the same call with that ticker removed from holdings.
C8_MissingPriceExcluded ==
  (BuildFinished \/ pc = "raised") =>
    \A u \in HKeys(holdings) \ DOMAIN live_prices :
      LET h == Without(holdings, u)
      IN /\ total_nav_cents = TotalNav(h, cash, live_prices)
         /\ total_nav_cents = NavOf(holdings, cash, live_prices)
         /\ \A k \in DOMAIN trades : trades[k].ticker # u
         /\ BuildTrades(h, cash, live_prices, max_abs_weight)
              = [err |-> err, trades |-> trades]
         /\ pc # "raised" =>
              /\ u \notin DOMAIN weights
              /\ weights = Weights(h, live_prices, TotalNav(h, cash, live_prices))

\* C8 witness: a returned list that trims a priced ticker while another
\* ticker is held without a price
C8_Witness ==
  /\ BuildFinished
  /\ trades # <<>>
  /\ \E u \in HKeys(holdings) \ DOMAIN live_prices : HGet(holdings, u, 0) # 0

\* C9: the shares kept by a trade are floor(floor(ceiling * NAV) / price),
\* and trading any smaller positive quantity (or none) would leave the
\* position above the ceiling; Scenario B sells 85 of 100 shares.
C9_MinimalTrim ==
  /\ \A k \in DOMAIN trades :
       LET t == trades[k]
           nav == NavOf(holdings, cash, live_prices)
           current == Abs(HGet(holdings, t.ticker, 0))
           boundary == (max_abs_weight[1] * nav) \div max_abs_weight[2]
       IN /\ t.priceCents > 0
          /\ current - t.shares = boundary \div t.priceCents
          /\ \A q \in 0..(t.shares - 1) :
               OverCeiling(t.priceCents, current - q, nav, max_abs_weight)
          /\ ~OverCeiling(t.priceCents, current - t.shares, nav, max_abs_weight)
  /\ (BuildFinished /\ holdings = ScenarioBHoldings /\ live_prices = ScenarioBPrices
        /\ cash = 0 /\ max_abs_weight = MAX_ABS_WEIGHT) =>
       /\ Len(trades) = 1
       /\ trades[1].type = SELL /\ trades[1].shares = 85 /\ trades[1].ticker = AAPL

\* C9 witness: a returned trade that keeps a nonzero part of its position
\* where the boundary is not a whole number of shares
C9_Witness ==
  /\ BuildFinished
  /\ \E k \in DOMAIN trades :
       LET t == trades[k]
           boundary == (max_abs_weight[1] * NavOf(holdings, cash, live_prices))
                          \div max_abs_weight[2]
       IN /\ Abs(HGet(holdings, t.ticker, 0)) - t.shares >= 1
          /\ t.shares >= 1
          /\ boundary % t.priceCents # 0

----------------------------------------------------------------------------
(* main of update_prices.py *)

SPY == <<83, 80, 89>>           \* "SPY"
TickT == <<84>>                 \* "T"

\* EXTRA_TICKERS = ["SPY"]
EXTRA_TICKERS == <<SPY>>

\* time.sleep(15)
SLEEP_SECONDS == 15

\* The truthy tickers of a list of records
TruthyTickers(l) ==
  {l[k].ticker : k \in {m \in DOMAIN l : "ticker" \in DOMAIN l[m] /\ l[m].ticker # EmptyStr}}

RECURSIVE Sorted(_)
\* sorted(symbol_set)
Sorted(S) ==
  IF S = {} THEN <<>>
  ELSE LET least == CHOOSE x \in S : \A y \in S \ {x} : StrLess(x, y)
       IN <<least>> \o Sorted(S \ {least})

\* The history series after today's price is recorded
SeriesWith(series, today, cents) ==
  IF series # <<>> /\ series[Len(series)].date = today
  THEN [series EXCEPT ![Len(series)].priceCents = cents]
  ELSE Append(series, [date |-> today, priceCents |-> cents])

\* Lines 111-127: the symbols of the positions, the transactions and the extras
FetchCollect ==
  /\ pc = "fetch_main"
  /\ symbol_set' = TruthyTickers(Get(cfg, "positions", <<>>))
                     \cup TruthyTickers(Get(cfg, "transactions", <<>>))
                     \cup {EXTRA_TICKERS[k] : k \in DOMAIN EXTRA_TICKERS}
  /\ symbols_to_track' = Sorted(symbol_set')
  /\ sym_idx' = 0
  /\ latest' = [symbols |-> <<>>]
  /\ pc' = "fetch_loop"
  /\ UNCHANGED <<caller, err, replayVars, buildVars, mainVars, events, history_symbols>>

\* An iteration whose fetch_price_cents raises: logged, then continue
FetchFails ==
  /\ pc = "fetch_loop"
  /\ sym_idx < Len(symbols_to_track)
  /\ events' = Append(events, [kind |-> "request", symbol |-> symbols_to_track[sym_idx + 1]])
  /\ sym_idx' = sym_idx + 1
  /\ UNCHANGED <<caller, pc, err, replayVars, buildVars, mainVars, symbol_set,
                 symbols_to_track, latest, history_symbols>>

\* An iteration whose fetch_price_cents returns cents: snapshot and history
\* are updated, then the sleep unless this was the last symbol
FetchSucceeds ==
  /\ pc = "fetch_loop"
  /\ sym_idx < Len(symbols_to_track)
  /\ \E cents \in 1..MaxPrice :
       LET symbol == symbols_to_track[sym_idx + 1]
       IN /\ latest' = [latest EXCEPT !.symbols =
                          [t \in DOMAIN @ \cup {symbol} |->
                             IF t = symbol THEN [priceCents |-> cents, currency |-> "USD"]
                             ELSE @[t]]]
          /\ history_symbols' = [t \in DOMAIN history_symbols \cup {symbol} |->
                           IF t = symbol THEN SeriesWith(Get(history_symbols, symbol, <<>>), today_str, cents)
                           ELSE history_symbols[t]]
          /\ events' =
               LET requested == Append(events, [kind |-> "request", symbol |-> symbol])
               IN IF sym_idx < Len(symbols_to_track) - 1
                  THEN Append(requested, [kind |-> "sleep", seconds |-> SLEEP_SECONDS])
                  ELSE requested
  /\ sym_idx' = sym_idx + 1
  /\ UNCHANGED <<caller, pc, err, replayVars, buildVars, mainVars, symbol_set,
                 symbols_to_track>>

\* The snapshot and the history are written
FetchWrite ==
  /\ pc = "fetch_loop"
  /\ sym_idx >= Len(symbols_to_track)
  /\ pc' = "done"
  /\ UNCHANGED <<caller, err, replayVars, buildVars, mainVars, fetchVars>>

FetchRecords == {[ticker |-> TickA], [ticker |-> TickT], [ticker |-> EmptyStr], [shares |-> 1]}

FetchInit ==
  /\ caller = "fetch"
  /\ pc = "fetch_main"
  /\ err = ""
  /\ cfg \in {[positions |-> ps, transactions |-> ts] :
                ps \in SeqsUpTo(FetchRecords, 1), ts \in SeqsUpTo(FetchRecords, MaxLedger)}
  /\ ledger0 = cfg.transactions
  /\ today_str = Date3
  /\ IdleReplay
  /\ holdings = <<>>
  /\ cash = 0
  /\ IdleBuild
  /\ symbol_set = {}
  /\ symbols_to_track = <<>>
  /\ sym_idx = 0
  /\ latest = <<>>
  /\ events = <<>>
  /\ history_symbols \in {<<>>,
                  [t \in {SPY} |-> <<[date |-> Date2, priceCents |-> 1]>>],
                  [t \in {SPY} |-> <<[date |-> Date3, priceCents |-> 1]>>]}

FetchNext == FetchCollect \/ FetchFails \/ FetchSucceeds \/ FetchWrite

FetchSpec == FetchInit /\ [][FetchNext]_vars

Requests == SelectSeq(events, LAMBDA e : e.kind = "request")

\* C10: the requests are issued in sorted symbol order, the rate-limit
\* sleep is taken between every two consecutive requests, and no sleep
\* follows the last request.
C10_RateLimited ==
  /\ \A k \in 1..(Len(Requests) - 1) : StrLess(Requests[k].symbol, Requests[k + 1].symbol)
  /\ \A k \in 1..(Len(events) - 1) :
       events[k].kind = "request" =>
         (events[k + 1].kind = "sleep" /\ events[k + 1].seconds = SLEEP_SECONDS)
  /\ (pc = "done" /\ events # <<>>) => events[Len(events)].kind = "request"

====
